---- MODULE Spec2Model ----
(***************************************************************************)
(* Model of simple_cache.go: a fixed-capacity TTL cache made of a Go map   *)
(* (table) and a circular doubly-linked list of entries anchored at a      *)
(* sentinel (cache.head), protected by one sync.Mutex.                     *)
(*                                                                         *)
(* Entries live in an arena `cache.ent`: index head (0) is the sentinel    *)
(* cache.head, indices 1..n are the entries created by                     *)
(* new(SimpleCacheEntry), in allocation order.  Pointers are arena         *)
(* indices; Nil is the Go nil pointer.  Time is an integer clock `now`.    *)
(***************************************************************************)
EXTENDS Integers, Sequences, FiniteSets, TLC

----------------------------------------------------------------------------
(* Bounds of the model *)

NumKeys == 3        \* application keys of Spec are the integers 0 .. NumKeys-1
NumValues == 2      \* application values are 1 .. NumValues
MaxTime == 3        \* the clock runs from 0 to MaxTime
MaxCalls == 3       \* calls made in Spec
MaxWrites == 6      \* calls made in SpecWrites
NumThreads == 2     \* concurrent callers in SpecConc
MaxConcCalls == 2   \* calls begun in SpecConc

(* Construction parameters: New(Capacity, CapFactorTenths/10, Ttl, toMapKey); *)
(* SpecConc constructs the cache with ConcCapacity instead of Capacity.       *)
Capacity == 2
ConcCapacity == 1
CapFactorTenths == 2
Ttl == 2

Keys == 0 .. (NumKeys - 1)
Values == 1 .. NumValues
Threads == 1 .. NumThreads

(* SpecWrites: enough keys to fill the cache again after a Clean and then  *)
(* ask for one more entry                                                  *)
WriteKeys == 0 .. (Capacity + 1)

(* SpecConc: one key more than the cache holds; the value written plays no *)
(* part in locking or in the reading of the clock                          *)
ConcKeys == 0 .. ConcCapacity
ConcValues == {1}

----------------------------------------------------------------------------
(* Go values *)

AVAILABLE == 0
BUSY == 1

Nil == -1           \* nil pointer / missing map entry
head == 0           \* &cache.head
NilValue == 0       \* nil interface{}
ZeroTime == -1      \* zero time.Time: before every instant of the clock
NoErr == "nil"

ErrFull == "cache is full"
ErrNotFound == "not found"
ErrExpired == "found but ttl expired"
ErrEmpty == "empty cache"
ErrMruExpired == "MRU entry has expired"

(* The zero SimpleCacheEntry, as produced by new() and as cache.head starts *)
ZeroEntry ==
  [key |-> "", value |-> NilValue, timestamp |-> ZeroTime,
   expirationTime |-> ZeroTime, prev |-> Nil, next |-> Nil, state |-> AVAILABLE]

(* strconv.Itoa on the keys of the tests, the toMapKey of the tests *)
Digits == <<"0", "1", "2", "3", "4", "5", "6", "7", "8", "9">>

toMapKey(key) == [str |-> Digits[key + 1], err |-> NoErr]

----------------------------------------------------------------------------
VARIABLES
  cache,    \* the SimpleCache object: table, ent (arena), counters, parameters
  now,      \* the clock read by time.Now()
  ret,      \* what the last completed operation returned
  lock,     \* cache.lock: 0 when free, else the thread holding it
  pc,       \* per thread: position inside its current call
  call,     \* per thread: the call's arguments and locals
  ncalls,   \* calls begun so far
  stored    \* history: keys indexed whose value was stored by a successful
            \* InsertOrUpdate since the last Clean (or since New)

vars == <<cache, now, ret, lock, pc, call, ncalls, stored>>

----------------------------------------------------------------------------
(* New *)

ExtendedCapacityOf(capacity, tenths) == ((10 + tenths) * capacity + 9) \div 10

New(capacity, tenths, ttl) ==
  [table |-> [x \in {} |-> Nil],
   missCount |-> 0,
   hitCount |-> 0,
   ttl |-> ttl,
   capacity |-> capacity,
   extendedCapacity |-> ExtendedCapacityOf(capacity, tenths),
   numEntries |-> 0,
   ent |-> [i \in {head} |-> [ZeroEntry EXCEPT !.prev = head, !.next = head]]]

(* cache.table[s]: Nil when the key is missing *)
Lookup(c, s) == IF s \in DOMAIN c.table THEN c.table[s] ELSE Nil

(* cache.table[s] = e *)
TablePut(table, s, e) ==
  [x \in (DOMAIN table) \cup {s} |-> IF x = s THEN e ELSE table[x]]

(* delete(cache.table, s) *)
TableDelete(table, s) == [x \in (DOMAIN table) \ {s} |-> table[x]]

(* an expiry test that counts the instant of expirationTime as expired *)
hasExpired_atExpiry(entry, currTime) == entry.expirationTime <= currTime

hasExpired(entry, currTime) == entry.expirationTime < currTime

getMRU(c) == IF c.ent[head].next # head THEN c.ent[head].next ELSE Nil

getLRU(c) == IF c.ent[head].prev # head THEN c.ent[head].prev ELSE Nil

(* an insertAsMru without cache.head.next.prev = entry *)
insertAsMru_noBackLink(ent, e) ==
  LET e1 == [ent EXCEPT ![e].prev = head]
      e2 == [e1 EXCEPT ![e].next = e1[head].next]
  IN  [e2 EXCEPT ![head].next = e]

(* the four pointer assignments of insertAsMru, in order *)
insertAsMru(ent, e) ==
  LET e1 == [ent EXCEPT ![e].prev = head]
      e2 == [e1 EXCEPT ![e].next = e1[head].next]
      e3 == [e2 EXCEPT ![e2[head].next].prev = e]
  IN  [e3 EXCEPT ![head].next = e]

selfDeleteFromLRUList(ent, e) ==
  LET e1 == [ent EXCEPT ![ent[e].prev].next = ent[e].next]
  IN  [e1 EXCEPT ![e1[e].next].prev = e1[e].prev]

becomeMru(ent, e) == insertAsMru(selfDeleteFromLRUList(ent, e), e)

(* an eviction that refuses whenever the LRU entry is BUSY or unexpired *)
evictLruEntry_or(c, timeNow) ==
  LET entry == c.ent[head].prev
  IN  IF ~hasExpired(c.ent[entry], timeNow) \/ c.ent[entry].state = BUSY
      THEN [c |-> c, entry |-> Nil, err |-> ErrFull]
      ELSE LET e1 == selfDeleteFromLRUList(c.ent, entry)
               e2 == [e1 EXCEPT ![entry].state = AVAILABLE]
           IN  [c |-> [c EXCEPT !.ent = e2,
                                !.table = TableDelete(c.table, e2[entry].key)],
                entry |-> entry, err |-> NoErr]

(* an eviction that, when it refuses, still marks the LRU entry AVAILABLE *)
evictLruEntry_marks(c, timeNow) ==
  LET entry == c.ent[head].prev
  IN  IF ~hasExpired(c.ent[entry], timeNow) /\ c.ent[entry].state = BUSY
      THEN [c |-> [c EXCEPT !.ent[entry].state = AVAILABLE],
            entry |-> Nil, err |-> ErrFull]
      ELSE LET e1 == selfDeleteFromLRUList(c.ent, entry)
               e2 == [e1 EXCEPT ![entry].state = AVAILABLE]
           IN  [c |-> [c EXCEPT !.ent = e2,
                                !.table = TableDelete(c.table, e2[entry].key)],
                entry |-> entry, err |-> NoErr]

(* an eviction without delete(cache.table, entry.key) *)
evictLruEntry_keepsIndex(c, timeNow) ==
  LET entry == c.ent[head].prev
  IN  IF ~hasExpired(c.ent[entry], timeNow) /\ c.ent[entry].state = BUSY
      THEN [c |-> c, entry |-> Nil, err |-> ErrFull]
      ELSE LET e1 == selfDeleteFromLRUList(c.ent, entry)
               e2 == [e1 EXCEPT ![entry].state = AVAILABLE]
           IN  [c |-> [c EXCEPT !.ent = e2], entry |-> entry, err |-> NoErr]

(* evictLruEntry: returns the cache after the call, the entry and the error *)
evictLruEntry(c, timeNow) ==
  LET entry == c.ent[head].prev
  IN  IF ~hasExpired(c.ent[entry], timeNow) /\ c.ent[entry].state = BUSY
      THEN [c |-> c, entry |-> Nil, err |-> ErrFull]
      ELSE LET e1 == selfDeleteFromLRUList(c.ent, entry)
               e2 == [e1 EXCEPT ![entry].state = AVAILABLE]
           IN  [c |-> [c EXCEPT !.ent = e2,
                                !.table = TableDelete(c.table, e2[entry].key)],
                entry |-> entry, err |-> NoErr]

(* new(SimpleCacheEntry): the next arena index, holding a zero entry *)
NewEntryId(ent) == Cardinality(DOMAIN ent)

(* a capacity test that is off by one *)
atCapacity_offByOne(c) == c.numEntries = c.capacity + 1

(* the capacity test of allocateEntry *)
atCapacity(c) == c.numEntries = c.capacity

allocateEntry(c, key, timeNow) ==
  LET got == IF atCapacity(c)
             THEN evictLruEntry(c, timeNow)
             ELSE LET id == NewEntryId(c.ent)
                  IN  [c |-> [c EXCEPT
                                !.ent = [i \in (DOMAIN c.ent) \cup {id} |->
                                           IF i = id THEN ZeroEntry ELSE c.ent[i]],
                                !.numEntries = c.numEntries + 1],
                       entry |-> id, err |-> NoErr]
  IN  IF got.err # NoErr
      THEN [c |-> got.c, entry |-> Nil, err |-> got.err]
      ELSE LET e1 == insertAsMru(got.c.ent, got.entry)
               e2 == [e1 EXCEPT ![got.entry].key = key]
               e3 == [e2 EXCEPT ![got.entry].state = BUSY]
           IN  [c |-> [got.c EXCEPT !.ent = e3,
                                    !.table = TablePut(got.c.table, key, got.entry)],
                entry |-> got.entry, err |-> NoErr]

(* an InsertOrUpdate that leaves the expirationTime of an indexed key alone *)
InsertOrUpdateBody_keepsExpiry(c, stringKey, value, currTime, timeNow) ==
  LET found == Lookup(c, stringKey)
      c1 == IF found = Nil THEN [c EXCEPT !.missCount = c.missCount + 1] ELSE c
      got == IF found = Nil
             THEN allocateEntry(c1, stringKey, timeNow)
             ELSE [c |-> c1, entry |-> found, err |-> NoErr]
  IN  IF got.err # NoErr
      THEN [c |-> got.c,
            ret |-> [op |-> "InsertOrUpdate", key |-> stringKey,
                     value |-> NilValue, err |-> got.err]]
      ELSE LET c2 == [got.c EXCEPT !.hitCount = got.c.hitCount + 1]
               e1 == [c2.ent EXCEPT ![got.entry].value = value]
               e2 == [e1 EXCEPT ![got.entry].timestamp = currTime]
               e3 == IF found = Nil
                     THEN [e2 EXCEPT ![got.entry].expirationTime = currTime + c2.ttl]
                     ELSE e2
           IN  [c |-> [c2 EXCEPT !.ent = e3],
                ret |-> [op |-> "InsertOrUpdate", key |-> stringKey,
                         value |-> NilValue, err |-> NoErr]]

(* an InsertOrUpdate that counts a miss on every call *)
InsertOrUpdateBody_alwaysMiss(c, stringKey, value, currTime, timeNow) ==
  LET found == Lookup(c, stringKey)
      c1 == [c EXCEPT !.missCount = c.missCount + 1]
      got == IF found = Nil
             THEN allocateEntry(c1, stringKey, timeNow)
             ELSE [c |-> c1, entry |-> found, err |-> NoErr]
  IN  IF got.err # NoErr
      THEN [c |-> got.c,
            ret |-> [op |-> "InsertOrUpdate", key |-> stringKey,
                     value |-> NilValue, err |-> got.err]]
      ELSE LET c2 == [got.c EXCEPT !.hitCount = got.c.hitCount + 1]
               e1 == [c2.ent EXCEPT ![got.entry].value = value]
               e2 == [e1 EXCEPT ![got.entry].timestamp = currTime]
               e3 == [e2 EXCEPT ![got.entry].expirationTime = currTime + c2.ttl]
           IN  [c |-> [c2 EXCEPT !.ent = e3],
                ret |-> [op |-> "InsertOrUpdate", key |-> stringKey,
                         value |-> NilValue, err |-> NoErr]]

(* InsertOrUpdate, from the lookup at line 199 on.  currTime is the clock  *)
(* read before the lock is taken, timeNow the clock read by evictLruEntry. *)
InsertOrUpdateBody(c, stringKey, value, currTime, timeNow) ==
  LET found == Lookup(c, stringKey)
      c1 == IF found = Nil THEN [c EXCEPT !.missCount = c.missCount + 1] ELSE c
      got == IF found = Nil
             THEN allocateEntry(c1, stringKey, timeNow)
             ELSE [c |-> c1, entry |-> found, err |-> NoErr]
  IN  IF got.err # NoErr
      THEN [c |-> got.c,
            ret |-> [op |-> "InsertOrUpdate", key |-> stringKey,
                     value |-> NilValue, err |-> got.err]]
      ELSE LET c2 == [got.c EXCEPT !.hitCount = got.c.hitCount + 1]
               e1 == [c2.ent EXCEPT ![got.entry].value = value]
               e2 == [e1 EXCEPT ![got.entry].timestamp = currTime]
               e3 == [e2 EXCEPT ![got.entry].expirationTime = currTime + c2.ttl]
           IN  [c |-> [c2 EXCEPT !.ent = e3],
                ret |-> [op |-> "InsertOrUpdate", key |-> stringKey,
                         value |-> NilValue, err |-> NoErr]]

(* a Read that does not refresh the expirationTime *)
ReadBody_noRefresh(c, stringKey, currTime) ==
  LET entry == Lookup(c, stringKey)
  IN  IF entry = Nil
      THEN [c |-> [c EXCEPT !.missCount = c.missCount + 1],
            ret |-> [op |-> "Read", key |-> stringKey,
                     value |-> NilValue, err |-> ErrNotFound]]
      ELSE IF hasExpired(c.ent[entry], currTime)
      THEN [c |-> [c EXCEPT !.missCount = c.missCount + 1],
            ret |-> [op |-> "Read", key |-> stringKey,
                     value |-> c.ent[entry].value, err |-> ErrExpired]]
      ELSE LET c1 == [c EXCEPT !.hitCount = c.hitCount + 1]
               e1 == c1.ent
               e2 == becomeMru(e1, entry)
           IN  [c |-> [c1 EXCEPT !.ent = e2],
                ret |-> [op |-> "Read", key |-> stringKey,
                         value |-> e2[entry].value, err |-> NoErr]]

(* Read, from the lookup at line 229 on *)
ReadBody(c, stringKey, currTime) ==
  LET entry == Lookup(c, stringKey)
  IN  IF entry = Nil
      THEN [c |-> [c EXCEPT !.missCount = c.missCount + 1],
            ret |-> [op |-> "Read", key |-> stringKey,
                     value |-> NilValue, err |-> ErrNotFound]]
      ELSE IF hasExpired(c.ent[entry], currTime)
      THEN [c |-> [c EXCEPT !.missCount = c.missCount + 1],
            ret |-> [op |-> "Read", key |-> stringKey,
                     value |-> c.ent[entry].value, err |-> ErrExpired]]
      ELSE LET c1 == [c EXCEPT !.hitCount = c.hitCount + 1]
               e1 == [c1.ent EXCEPT ![entry].expirationTime = currTime + c1.ttl]
               e2 == becomeMru(e1, entry)
           IN  [c |-> [c1 EXCEPT !.ent = e2],
                ret |-> [op |-> "Read", key |-> stringKey,
                         value |-> e2[entry].value, err |-> NoErr]]

(* a GetMRU that counts a hit when it succeeds *)
GetMRUBody_countsHit(c, timeNow) ==
  IF c.numEntries = 0
  THEN [c |-> c, ret |-> [op |-> "GetMRU", key |-> "", value |-> NilValue,
                          err |-> ErrEmpty]]
  ELSE LET entry == getMRU(c)
       IN  IF hasExpired(c.ent[entry], timeNow) \/ c.ent[entry].state = AVAILABLE
           THEN [c |-> c, ret |-> [op |-> "GetMRU", key |-> c.ent[entry].key,
                                   value |-> c.ent[entry].value,
                                   err |-> ErrMruExpired]]
           ELSE [c |-> [c EXCEPT !.hitCount = c.hitCount + 1],
                 ret |-> [op |-> "GetMRU", key |-> c.ent[entry].key,
                          value |-> c.ent[entry].value, err |-> NoErr]]

(* GetMRU, inside the lock *)
GetMRUBody(c, timeNow) ==
  IF c.numEntries = 0
  THEN [c |-> c, ret |-> [op |-> "GetMRU", key |-> "", value |-> NilValue,
                          err |-> ErrEmpty]]
  ELSE LET entry == getMRU(c)
       IN  IF hasExpired(c.ent[entry], timeNow) \/ c.ent[entry].state = AVAILABLE
           THEN [c |-> c, ret |-> [op |-> "GetMRU", key |-> c.ent[entry].key,
                                   value |-> c.ent[entry].value,
                                   err |-> ErrMruExpired]]
           ELSE [c |-> c, ret |-> [op |-> "GetMRU", key |-> c.ent[entry].key,
                                   value |-> c.ent[entry].value, err |-> NoErr]]

(* GetState: the CacheState that is marshalled *)
GetStateBody(c) ==
  [c |-> c,
   ret |-> [op |-> "GetState", key |-> "", value |-> NilValue, err |-> NoErr,
            state |-> [MissCount |-> c.missCount, HitCount |-> c.hitCount,
                       TTL |-> c.ttl, Capacity |-> c.capacity,
                       NumEntries |-> c.numEntries]]]

(* the loop of clean: for it := NewCacheIt(); it.HasCurr(); it.Next() *)
RECURSIVE cleanLoop(_, _)
cleanLoop(ent, curr) ==
  IF curr = head THEN ent
  ELSE cleanLoop([ent EXCEPT ![curr].state = AVAILABLE], ent[curr].next)

clean(c) ==
  LET e1 == cleanLoop(c.ent, c.ent[head].next)
  IN  [c EXCEPT !.ent = e1, !.numEntries = 0, !.hitCount = 0, !.missCount = 0]

CleanBody(c) ==
  [c |-> clean(c),
   ret |-> [op |-> "Clean", key |-> "", value |-> NilValue, err |-> NoErr]]

----------------------------------------------------------------------------
(* State after construction; no thread is inside a call *)

(* lockTime is history: the clock when the call's Lock returned *)
NoCall ==
  [op |-> "none", key |-> "", value |-> NilValue, currTime |-> ZeroTime,
   lockTime |-> ZeroTime]

InitWith(capacity) ==
  /\ cache = New(capacity, CapFactorTenths, Ttl)
  /\ now = 0
  /\ ret = [op |-> "New", key |-> "", value |-> NilValue, err |-> NoErr]
  /\ lock = 0
  /\ pc = [t \in Threads |-> "idle"]
  /\ call = [t \in Threads |-> NoCall]
  /\ ncalls = 0
  /\ stored = {}

Init == InitWith(Capacity)

(* the clock advances *)
Tick ==
  /\ now < MaxTime
  /\ now' = now + 1
  /\ ret' = [op |-> "Tick", key |-> "", value |-> NilValue, err |-> NoErr]
  /\ UNCHANGED <<cache, lock, pc, call, ncalls, stored>>

----------------------------------------------------------------------------
(* Calls made one at a time: each action is a whole call, the lock taken   *)
(* and released inside it, the clock standing still during the call.       *)

(* the history of stores after a body returned r *)
StoredAfter(r) ==
  IF r.ret.op = "Clean" THEN {}
  ELSE IF r.ret.op = "InsertOrUpdate" /\ r.ret.err = NoErr
       THEN (stored \cup {r.ret.key}) \cap DOMAIN r.c.table
       ELSE stored

Returns(r) ==
  /\ cache' = r.c
  /\ ret' = r.ret
  /\ stored' = StoredAfter(r)
  /\ ncalls' = ncalls + 1
  /\ UNCHANGED <<now, lock, pc, call>>

InsertOrUpdate(key, value) ==
  LET k == toMapKey(key)
  IN  IF k.err # NoErr
      THEN Returns([c |-> cache,
                    ret |-> [op |-> "InsertOrUpdate", key |-> k.str,
                             value |-> NilValue, err |-> k.err]])
      ELSE Returns(InsertOrUpdateBody(cache, k.str, value, now, now))

Read(key) ==
  LET k == toMapKey(key)
  IN  IF k.err # NoErr
      THEN Returns([c |-> cache,
                    ret |-> [op |-> "Read", key |-> k.str,
                             value |-> NilValue, err |-> k.err]])
      ELSE Returns(ReadBody(cache, k.str, now))

GetMRU == Returns(GetMRUBody(cache, now))

GetState == Returns(GetStateBody(cache))

Clean == Returns(CleanBody(cache))

Next ==
  \/ ncalls < MaxCalls /\ \E key \in Keys, value \in Values :
                             InsertOrUpdate(key, value)
  \/ ncalls < MaxCalls /\ \E key \in Keys : Read(key)
  \/ ncalls < MaxCalls /\ GetMRU
  \/ ncalls < MaxCalls /\ GetState
  \/ ncalls < MaxCalls /\ Clean
  \/ Tick

Spec == Init /\ [][Next]_vars

(* Writes and resets only, with a longer run of calls *)
NextWrites ==
  \/ ncalls < MaxWrites /\ \E key \in WriteKeys, value \in Values :
                              InsertOrUpdate(key, value)
  \/ ncalls < MaxWrites /\ Clean
  \/ Tick

SpecWrites == Init /\ [][NextWrites]_vars

----------------------------------------------------------------------------
(* Calls made by several threads.  A call reads the clock and derives the  *)
(* key before it takes the lock, runs its body holding it, and the         *)
(* deferred Unlock runs on return.                                         *)

BeginInsertOrUpdate(t, key, value) ==
  /\ pc[t] = "idle"
  /\ ncalls < MaxConcCalls
  /\ LET k == toMapKey(key)
     IN  /\ k.err = NoErr
         /\ call' = [call EXCEPT ![t] = [op |-> "InsertOrUpdate", key |-> k.str,
                                         value |-> value, currTime |-> now,
                                         lockTime |-> ZeroTime]]
  /\ pc' = [pc EXCEPT ![t] = "lock"]
  /\ ncalls' = ncalls + 1
  /\ UNCHANGED <<cache, now, ret, lock, stored>>

BeginRead(t, key) ==
  /\ pc[t] = "idle"
  /\ ncalls < MaxConcCalls
  /\ LET k == toMapKey(key)
     IN  /\ k.err = NoErr
         /\ call' = [call EXCEPT ![t] = [op |-> "Read", key |-> k.str,
                                         value |-> NilValue, currTime |-> now,
                                         lockTime |-> ZeroTime]]
  /\ pc' = [pc EXCEPT ![t] = "lock"]
  /\ ncalls' = ncalls + 1
  /\ UNCHANGED <<cache, now, ret, lock, stored>>

(* GetMRU, Clean and GetState start by taking the lock *)
BeginOther(t, op) ==
  /\ pc[t] = "idle"
  /\ ncalls < MaxConcCalls
  /\ call' = [call EXCEPT ![t] = [NoCall EXCEPT !.op = op]]
  /\ pc' = [pc EXCEPT ![t] = "lock"]
  /\ ncalls' = ncalls + 1
  /\ UNCHANGED <<cache, now, ret, lock, stored>>

(* sync.Mutex.Lock: blocks until the mutex is free *)
LockFree(l, t) == l = 0

Acquire(t) ==
  /\ pc[t] = "lock"
  /\ LockFree(lock, t)
  /\ lock' = t
  /\ pc' = [pc EXCEPT ![t] = "body"]
  /\ call' = [call EXCEPT ![t].lockTime = now]
  /\ UNCHANGED <<cache, now, ret, ncalls, stored>>

BodyOf(c, a, timeNow) ==
  CASE a.op = "InsertOrUpdate" ->
         InsertOrUpdateBody(c, a.key, a.value, a.currTime, timeNow)
    [] a.op = "Read" -> ReadBody(c, a.key, a.currTime)
    [] a.op = "GetMRU" -> GetMRUBody(c, timeNow)
    [] a.op = "GetState" -> GetStateBody(c)
    [] a.op = "Clean" -> CleanBody(c)

Body(t) ==
  /\ pc[t] = "body"
  /\ LET r == BodyOf(cache, call[t], now)
     IN  /\ cache' = r.c
         /\ ret' = r.ret
         /\ stored' = StoredAfter(r)
  /\ pc' = [pc EXCEPT ![t] = "unlock"]
  /\ UNCHANGED <<now, lock, call, ncalls>>

(* an Unlock that is skipped when the body returns an error *)
DeferredUnlock_onSuccess(r) == r.err = NoErr

(* the deferred cache.lock.Unlock() runs on every return of the body *)
DeferredUnlock(r) == TRUE

Release(t) ==
  /\ pc[t] = "unlock"
  /\ lock' = IF DeferredUnlock(ret) THEN 0 ELSE lock
  /\ pc' = [pc EXCEPT ![t] = "idle"]
  /\ call' = [call EXCEPT ![t] = NoCall]
  /\ UNCHANGED <<cache, now, ret, ncalls, stored>>

NextConc ==
  \/ \E t \in Threads, key \in ConcKeys, value \in ConcValues :
        BeginInsertOrUpdate(t, key, value)
  \/ \E t \in Threads, key \in ConcKeys : BeginRead(t, key)
  \/ \E t \in Threads, op \in {"GetMRU", "GetState", "Clean"} : BeginOther(t, op)
  \/ \E t \in Threads : Acquire(t)
  \/ \E t \in Threads : Body(t)
  \/ \E t \in Threads : Release(t)
  \/ Tick

InitConc == InitWith(ConcCapacity)

SpecConc == InitConc /\ [][NextConc]_vars

----------------------------------------------------------------------------
(* What an observer of the cache sees *)

(* the iterator: NewCacheIt, then GetCurr/Next while HasCurr *)
RECURSIVE IterFrom(_, _, _)
IterFrom(ent, curr, fuel) ==
  IF curr = head \/ fuel = 0 THEN <<>>
  ELSE <<curr>> \o IterFrom(ent, ent[curr].next, fuel - 1)

Entries(c) == IterFrom(c.ent, c.ent[head].next, Cardinality(DOMAIN c.ent))

(* keys in list order, MRU first *)
KeyOrder(c) == [i \in 1 .. Len(Entries(c)) |-> c.ent[Entries(c)[i]].key]

(* per indexed key: the value and the expiry of its record *)
Contents(c) ==
  [k \in DOMAIN c.table |->
     [value |-> c.ent[c.table[k]].value,
      expirationTime |-> c.ent[c.table[k]].expirationTime]]

(* a sequence without the occurrences of x *)
Without(seq, x) == SelectSeq(seq, LAMBDA y : y # x)

(* the step just taken was a call of op (every call sets ret and counts) *)
Called(op) == ncalls' = ncalls + 1 /\ ret'.op = op

----------------------------------------------------------------------------
(* C1: after every operation of any sequence of InsertOrUpdate, Read,      *)
(* GetMRU and Clean calls, with the clock advancing between them, the      *)
(* live-entry counter satisfies 0 <= numEntries <= capacity.               *)
C1_CapacityBound ==
  0 <= cache.numEntries /\ cache.numEntries <= cache.capacity

(* a write into a full cache was admitted by eviction: the counter stays   *)
(* at capacity although more keys were written than the cache holds        *)
C1_Witness ==
  /\ ret.op = "InsertOrUpdate" /\ ret.err = NoErr
  /\ cache.numEntries = cache.capacity
  /\ cache.ent[cache.table[ret.key]].state = BUSY
  /\ Len(Entries(cache)) = cache.capacity
  /\ cache.missCount > cache.capacity
  /\ cache.hitCount = cache.missCount

C3_InsertNeverDiscardsLive ==
  [][Called("InsertOrUpdate") =>
       \A k \in stored :
          now < Contents(cache)[k].expirationTime => k \in DOMAIN cache'.table]_vars

(* C4: a successful Read(K) at time t sets K's expirationTime to t + ttl   *)
(* (a); a Read(K) before the expirationTime of an indexed K succeeds (b);  *)
(* and K's expirationTime is only changed by a successful write or read of *)
(* K (c).  Hence a Read(K) after the old expiry and before t + ttl, with   *)
(* no write, Clean or eviction of K in between, succeeds.                  *)
C4_SlidingTtl ==
  [][/\ (Called("Read") /\ ret'.err = NoErr) =>
          /\ ret'.key \in DOMAIN cache'.table
          /\ Contents(cache')[ret'.key].expirationTime = now + cache.ttl
     /\ (Called("Read") /\ ret'.key \in DOMAIN cache.table
           /\ now < Contents(cache)[ret'.key].expirationTime) => ret'.err = NoErr
     /\ \A k \in (DOMAIN cache.table) \cap (DOMAIN cache'.table) :
          ~(ret'.op \in {"Read", "InsertOrUpdate"} /\ ret'.key = k
              /\ ret'.err = NoErr)
          => Contents(cache')[k].expirationTime
               = Contents(cache)[k].expirationTime]_vars

(* a Read succeeded later than ttl after the last write of its key, on an  *)
(* entry allocated since the last Clean: only an earlier read can have     *)
(* moved the expiry that far                                               *)
C4_Witness ==
  /\ ret.op = "Read" /\ ret.err = NoErr
  /\ ret.key \in stored
  /\ cache.ent[cache.table[ret.key]].state = BUSY
  /\ now > cache.ent[cache.table[ret.key]].timestamp + cache.ttl

(* C5: immediately after any successful InsertOrUpdate(k, v), k new or     *)
(* already indexed, the record of k is at the head of the ordering list:   *)
(* a GetMRU called next returns key k and value v.                         *)
C5_WriteMovesToMru ==
  [][\A key \in Keys, value \in Values :
       (InsertOrUpdate(key, value) /\ ret'.err = NoErr) =>
          /\ cache'.ent[cache'.ent[head].next].key = toMapKey(key).str
          /\ cache'.ent[cache'.ent[head].next].value = value
          /\ GetMRUBody(cache', now').ret.key = toMapKey(key).str
          /\ GetMRUBody(cache', now').ret.value = value]_vars

(* C6: immediately after a Read(k) that returns no error, the record of k  *)
(* is at the head of the ordering list, a GetMRU called next returns k and *)
(* its value, and the relative order of all other records is unchanged.    *)
C6_ReadMovesToMru ==
  [][(Called("Read") /\ ret'.err = NoErr) =>
       /\ cache'.ent[head].next = cache'.table[ret'.key]
       /\ KeyOrder(cache') = <<ret'.key>> \o Without(KeyOrder(cache), ret'.key)
       /\ GetMRUBody(cache', now').ret.key = ret'.key
       /\ GetMRUBody(cache', now').ret.value = ret'.value]_vars

(* C7: with numEntries = capacity, a write of a new key is rejected with   *)
(* "cache is full" while less than ttl has elapsed since the last touch of *)
(* the LRU record (its expirationTime - ttl); once ttl or more has         *)
(* elapsed, exactly ttl included, it succeeds, removes exactly the former  *)
(* LRU record from the index and the list, and leaves numEntries at        *)
(* capacity.                                                               *)
C7_ExpiryThenAdmit ==
  [][(Called("InsertOrUpdate") /\ ret'.key \notin DOMAIN cache.table
        /\ cache.numEntries = cache.capacity) =>
       LET lru == cache.ent[head].prev
           lastTouch == cache.ent[lru].expirationTime - cache.ttl
           order == KeyOrder(cache)
       IN  IF now - lastTouch < cache.ttl
           THEN ret'.err = ErrFull
           ELSE /\ ret'.err = NoErr
                /\ DOMAIN cache'.table
                     = ((DOMAIN cache.table) \ {cache.ent[lru].key}) \cup {ret'.key}
                /\ KeyOrder(cache')
                     = <<ret'.key>> \o SubSeq(order, 1, Len(order) - 1)
                /\ cache'.numEntries = cache.capacity]_vars

(* C8: immediately after Clean, numEntries, hitCount and missCount are 0,  *)
(* and a Read of a key that was inserted before the Clean and has not been *)
(* written since fails as not found, even within the key's TTL window.     *)
C8_CleanClears ==
  [][/\ Called("Clean") =>
          /\ cache'.numEntries = 0
          /\ cache'.hitCount = 0
          /\ cache'.missCount = 0
     /\ (Called("Read") /\ ret'.key \notin stored) => ret'.err = ErrNotFound]_vars

InCritical(t) == pc[t] \in {"body", "unlock"}

C10_LockHeld ==
  /\ Cardinality({t \in Threads : InCritical(t)}) <= 1
  /\ \A t \in Threads : InCritical(t) => lock = t
  /\ (\A t \in Threads : ~InCritical(t)) => lock = 0

C10_MutualExclusion ==
  /\ []C10_LockHeld
  /\ [][/\ \A t \in Threads :
             (pc[t] = "body" /\ pc'[t] = "unlock") => (lock = t /\ lock' = t)
        /\ cache' # cache =>
             \E t \in Threads : pc[t] = "body" /\ pc'[t] = "unlock" /\ lock = t]_vars

(* a thread returns an error from its body holding the lock while another  *)
(* thread waits for the lock                                               *)
C10_Witness ==
  \E t, u \in Threads :
     /\ t # u
     /\ pc[t] = "unlock" /\ lock = t
     /\ ret.err # NoErr
     /\ pc[u] = "lock"

----------------------------------------------------------------------------
(* what the serial-equivalence claim compares: index, list order, each     *)
(* record's value and expirationTime, and the counters                     *)
Observable(c) ==
  [index |-> DOMAIN c.table, order |-> KeyOrder(c), contents |-> Contents(c),
   hitCount |-> c.hitCount, missCount |-> c.missCount,
   numEntries |-> c.numEntries]

(* thread t runs the body of its call in this step *)
RunsBody(t) == pc[t] = "body" /\ pc'[t] = "unlock"

(* C11: for any interleaving of concurrent InsertOrUpdate and Read calls,  *)
(* each call, run in the order of lock acquisition, returns what the same  *)
(* call made alone returns and leaves the cache (index, list order, values,*)
(* expiry times, counters) as the same call made alone leaves it, when     *)
(* every reading of the clock by that call (currTime, and after it the    *)
(* time.Now() of evictLruEntry) is made inside its critical section.       *)
C11_SerialEquivalence ==
  [][\A t \in Threads :
       (RunsBody(t) /\ call[t].op \in {"InsertOrUpdate", "Read"}) =>
          \E tau \in call[t].lockTime .. now :
             \E timeNow \in tau .. now :
                LET alone ==
                      BodyOf(cache, [call[t] EXCEPT !.currTime = tau], timeNow)
                IN  /\ Observable(cache') = Observable(alone.c)
                    /\ ret' = alone.ret]_vars

(* C12 as stated: when InsertOrUpdate is rejected with "cache is full",    *)
(* the whole cache after the call equals the cache before it, missCount    *)
(* and hitCount included.                                                  *)
C12_RejectedWriteChangesNothing_AsStated ==
  [][(Called("InsertOrUpdate") /\ ret'.err = ErrFull) => cache' = cache]_vars

(* C12 amended: when InsertOrUpdate is rejected with "cache is full",      *)
(* missCount has grown by exactly one and everything else (hitCount,       *)
(* index, list order, every field of every record, numEntries) is what it  *)
(* was before the call.                                                    *)
C12_RejectedWriteChangesNothing ==
  [][(Called("InsertOrUpdate") /\ ret'.err = ErrFull) =>
       cache' = [cache EXCEPT !.missCount = cache.missCount + 1]]_vars

(* a write was rejected by a cache filled by successful writes: the        *)
(* counters differ by the rejected call                                    *)
C12_Witness ==
  /\ ret.op = "InsertOrUpdate" /\ ret.err = ErrFull
  /\ cache.hitCount = cache.capacity
  /\ cache.missCount = cache.hitCount + 1
  /\ \A i \in 1 .. Len(Entries(cache)) : cache.ent[Entries(cache)[i]].state = BUSY

(* C13: GetMRU, whether it succeeds, fails on an empty cache or fails on   *)
(* an expired MRU entry, leaves hitCount, missCount, numEntries, the       *)
(* index, the list order and every record's expirationTime and state       *)
(* unchanged; a key and value it returns, on success or with the expired   *)
(* error, are those of the record at the head of the ordering list.        *)
C13_PeekIsReadOnly ==
  [][Called("GetMRU") =>
       /\ ret'.err \in {NoErr, ErrEmpty, ErrMruExpired}
       /\ cache'.hitCount = cache.hitCount
       /\ cache'.missCount = cache.missCount
       /\ cache'.numEntries = cache.numEntries
       /\ cache'.table = cache.table
       /\ Entries(cache') = Entries(cache)
       /\ \A e \in DOMAIN cache.ent :
            /\ cache'.ent[e].expirationTime = cache.ent[e].expirationTime
            /\ cache'.ent[e].state = cache.ent[e].state
       /\ ret'.err \in {NoErr, ErrMruExpired} =>
            /\ Len(Entries(cache)) > 0
            /\ ret'.key = cache.ent[Entries(cache)[1]].key
            /\ ret'.value = cache.ent[Entries(cache)[1]].value]_vars

(* GetMRU found the entry at the head of a list of two expired and still   *)
(* returned its key and value                                              *)
C13_Witness ==
  /\ ret.op = "GetMRU" /\ ret.err = ErrMruExpired
  /\ Len(Entries(cache)) = 2
  /\ ret.key = cache.ent[cache.ent[head].next].key
  /\ ret.value \in Values
  /\ cache.ent[cache.ent[head].next].state = BUSY
  /\ now > cache.ent[cache.ent[head].next].expirationTime

(* C14: InsertOrUpdate(k, v) of a key k already in the index returns no    *)
(* error, whether or not numEntries = capacity and whether or not the      *)
(* record of k has expired; it stores v and sets the expirationTime to     *)
(* now + ttl, so that a Read of k made next succeeds with v; it evicts     *)
(* nothing and leaves numEntries and the set of indexed keys unchanged.    *)
C14_RewriteAlwaysSucceeds ==
  [][(Called("InsertOrUpdate") /\ ret'.key \in DOMAIN cache.table) =>
       \A key \in Keys, value \in Values :
          (toMapKey(key).str = ret'.key /\ InsertOrUpdate(key, value)) =>
          LET k == toMapKey(key).str
              read == ReadBody(cache', k, now').ret
          IN  /\ ret'.err = NoErr
              /\ Contents(cache')[k]
                   = [value |-> value, expirationTime |-> now + cache.ttl]
              /\ read.err = NoErr
              /\ read.value = value
              /\ Entries(cache') = Entries(cache)
              /\ KeyOrder(cache') = KeyOrder(cache)
              /\ cache'.numEntries = cache.numEntries
              /\ cache'.table = cache.table]_vars

(* the key at the LRU end of a full cache, expired like every other entry, *)
(* was written again: it stays where it was with a new expiry              *)
C14_Witness ==
  /\ ret.op = "InsertOrUpdate" /\ ret.err = NoErr
  /\ cache.numEntries = cache.capacity
  /\ Len(Entries(cache)) = cache.capacity
  /\ cache.table[ret.key] = cache.ent[head].prev
  /\ cache.ent[cache.table[ret.key]].timestamp = now
  /\ cache.ent[cache.table[ret.key]].expirationTime = now + cache.ttl
  /\ cache.ent[cache.ent[head].next].expirationTime < now
  /\ cache.hitCount = cache.missCount + 1

(* C15: after every operation of any sequence of InsertOrUpdate, Read,     *)
(* GetMRU and Clean calls, numEntries equals the number of keys in the     *)
(* index and the number of records met on a walk of the ordering list      *)
(* from the sentinel back to the sentinel.                                 *)
C15_SizeAgreement ==
  /\ cache.numEntries = Cardinality(DOMAIN cache.table)
  /\ cache.numEntries = Len(Entries(cache))

(* the records of the ordering list whose state is BUSY *)
Occupied(c) ==
  {i \in 1 .. Len(Entries(c)) : c.ent[Entries(c)[i]].state = BUSY}

(* C16: after every operation of any sequence of InsertOrUpdate, Read,     *)
(* GetMRU and Clean calls, the number of records of the ordering list      *)
(* whose state is BUSY equals numEntries, and so never exceeds capacity.   *)
C16_OccupiedCeiling ==
  /\ Cardinality(Occupied(cache)) = cache.numEntries
  /\ Cardinality(Occupied(cache)) <= cache.capacity

(* C17: an InsertOrUpdate of a key not in the index that succeeds adds one *)
(* to missCount and one to hitCount; an InsertOrUpdate of a key already in *)
(* the index adds one to hitCount and leaves missCount unchanged; an       *)
(* InsertOrUpdate rejected with "cache is full" adds one to missCount and  *)
(* leaves hitCount unchanged.  No step other than Clean decreases either   *)
(* counter.                                                                *)
C17_WriteCounterDeltas ==
  [][/\ Called("InsertOrUpdate") =>
          LET hits == cache'.hitCount - cache.hitCount
              misses == cache'.missCount - cache.missCount
          IN  IF ret'.key \in DOMAIN cache.table
              THEN ret'.err = NoErr /\ hits = 1 /\ misses = 0
              ELSE /\ ret'.err \in {NoErr, ErrFull}
                   /\ ret'.err = NoErr => (hits = 1 /\ misses = 1)
                   /\ ret'.err = ErrFull => (hits = 0 /\ misses = 1)
     /\ ~Called("Clean") =>
          /\ cache'.hitCount >= cache.hitCount
          /\ cache'.missCount >= cache.missCount]_vars

(* the second call wrote again the key that the first call had inserted:   *)
(* two hits, one miss                                                      *)
C17_Witness ==
  /\ ncalls = 2
  /\ ret.op = "InsertOrUpdate" /\ ret.err = NoErr
  /\ cache.hitCount = 2 /\ cache.missCount = 1
  /\ DOMAIN cache.table = {ret.key}

(* the records met by a walk, as a set *)
Range(seq) == {seq[i] : i \in 1 .. Len(seq)}

(* C18: after every operation of any sequence of InsertOrUpdate, Read,     *)
(* GetMRU and Clean calls, every key k of the index maps to a record whose *)
(* key field is k and which is linked in the ordering list, no two records *)
(* of the list have the same key, and every record of the list is indexed  *)
(* under its own key.                                                      *)
C18_IndexRecordAgreement ==
  LET walk == Entries(cache)
  IN  /\ \A k \in DOMAIN cache.table :
            /\ cache.table[k] \in DOMAIN cache.ent
            /\ cache.ent[cache.table[k]].key = k
            /\ cache.table[k] \in Range(walk)
      /\ \A i, j \in 1 .. Len(walk) :
            cache.ent[walk[i]].key = cache.ent[walk[j]].key => i = j
      /\ \A i \in 1 .. Len(walk) :
            /\ cache.ent[walk[i]].key \in DOMAIN cache.table
            /\ cache.table[cache.ent[walk[i]].key] = walk[i]

(* a write into a full cache evicted the first record ever allocated and   *)
(* indexed it again under the new key                                      *)
C18_Witness ==
  /\ ret.op = "InsertOrUpdate" /\ ret.err = NoErr
  /\ Cardinality(DOMAIN cache.table) = cache.capacity
  /\ NewEntryId(cache.ent) = cache.capacity + 1
  /\ cache.table[ret.key] = 1
  /\ cache.ent[head].next = 1
  /\ cache.missCount = cache.capacity + 1

(* a walk along prev pointers, from curr until the sentinel *)
RECURSIVE IterBackFrom(_, _, _)
IterBackFrom(ent, curr, fuel) ==
  IF curr = head \/ fuel = 0 THEN <<>>
  ELSE <<curr>> \o IterBackFrom(ent, ent[curr].prev, fuel - 1)

EntriesBackward(c) ==
  IterBackFrom(c.ent, c.ent[head].prev, Cardinality(DOMAIN c.ent))

(* the records: every entry made by new(SimpleCacheEntry) *)
Records(c) == (DOMAIN c.ent) \ {head}

(* the walk visits every record exactly once and then stands on the        *)
(* sentinel, link being the pointer it follows                             *)
VisitsAllOnce(c, walk, link) ==
  /\ Len(walk) = Cardinality(Records(c))
  /\ Range(walk) = Records(c)
  /\ walk # <<>> => link[walk[Len(walk)]] = head

C20_ExpiryNeverMovesBack ==
  [][\A t \in Threads :
       (RunsBody(t) /\ call[t].op \in {"InsertOrUpdate", "Read"}
          /\ ret'.err = NoErr) =>
          LET k == call[t].key
          IN  /\ k \in DOMAIN cache'.table
              /\ k \in DOMAIN cache.table =>
                   Contents(cache')[k].expirationTime
                     >= Contents(cache)[k].expirationTime
              /\ Contents(cache')[k].expirationTime
                   >= call[t].lockTime + cache.ttl]_vars

====
